---- MODULE Spec2Model ----
(***************************************************************************)
(* visatrack: the PDF attachment display pipeline of the frontend.         *)
(*                                                                         *)
(* The repository holds several iterations of the React hook               *)
(* useBlobObjectUrl, which turns attachment bytes into a revocable Blob    *)
(* URL.  They are modelled here as one slot whose variable `hook` says     *)
(* which iteration it runs:                                                *)
(*   "signature" - src/src/frontend/src/hooks/useBlobObjectUrl.ts          *)
(*                 (content signature kept in state, revoke in the effect) *)
(*   "delayed"   - src/unnamed/part_010, lines 18-196                      *)
(*                 (refs for the previous URL and a 2 s revocation timer)  *)
(*   "simple"    - src/unnamed/part_010, lines 205-242                     *)
(*                 (the destroy function revokes the URL its run created)  *)
(* React is modelled at the level of its callbacks: a render, the destroy  *)
(* function of the previous effect, the effect body, the unmount destroy   *)
(* functions and the timer callback.  The state updates an effect queues   *)
(* are batched and become visible to the consumer at the next render.      *)
(***************************************************************************)
EXTENDS FiniteSets, Integers, Sequences, TLC

(***************************************************************************)
(* Bounds of the model.                                                    *)
(***************************************************************************)
\* Object URLs the host hands out in one run (caps URL.createObjectURL).
MaxUrls == 2
\* Distinct buffer instances (object identities) per content.
MaxInstances == 2

(***************************************************************************)
(* Bytes and the pure helpers.                                             *)
(***************************************************************************)
\* "%PDF-"
PdfHeader == <<37, 80, 68, 70, 45>>
\* "%%EOF"
EofMarker == <<37, 37, 69, 79, 70>>
\* The EOF marker is searched in the last 1024 bytes.
TrailerWindow == 1024

\* Test documents: two well-formed ones, one without trailer, one without
\* header, and the empty buffer.
PdfA == PdfHeader \o EofMarker
PdfB == PdfHeader \o <<49>> \o EofMarker
NoEof == PdfHeader \o <<49, 46, 52>>
NoHdr == <<80, 68, 70>> \o EofMarker
Contents == {PdfA, PdfB, NoEof, NoHdr, <<>>}

Max(a, b) == IF a >= b THEN a ELSE b

\* String.prototype.startsWith on the string of char codes.
StartsWith(s, prefix) ==
  /\ Len(s) >= Len(prefix)
  /\ SubSeq(s, 1, Len(prefix)) = prefix

\* String.prototype.includes on the string of char codes.
Includes(s, needle) ==
  \E i \in 1..Len(s) : i + Len(needle) - 1 <= Len(s)
                       /\ SubSeq(s, i, i + Len(needle) - 1) = needle

\* TypedArray.prototype.slice(start): the elements from 0-based index start.
SliceFrom(data, start) == SubSeq(data, start + 1, Len(data))

\* new Uint8Array(numbers): every element is stored modulo 256.
ToUint8Array(data) == [i \in 1..Len(data) |-> data[i] % 256]

\* isPdfValid: non-empty, "%PDF-" at offset 0, "%%EOF" in the last 1024 bytes.
isPdfValid(data) ==
  /\ Len(data) # 0
  /\ StartsWith(SubSeq(data, 1, IF Len(data) < 5 THEN Len(data) ELSE 5), PdfHeader)
  /\ Includes(SliceFrom(data, Max(0, Len(data) - TrailerWindow)), EofMarker)

\* The hook's inline header check.
HasPdfHeader(data) ==
  StartsWith(SubSeq(data, 1, IF Len(data) < 5 THEN Len(data) ELSE 5), PdfHeader)

\* The hook's inline EOF check.
HasEofMarker(data) ==
  Includes(SliceFrom(data, Max(0, Len(data) - TrailerWindow)), EofMarker)

(***************************************************************************)
(* FNV-1a, 32 bit.  A 32-bit word is kept as <<high 16 bits, low 16 bits>> *)
(* so that every intermediate product stays below 2^31.                    *)
(***************************************************************************)
Half == 256 * 256
\* 0x01000193
FNV_PRIME == 16777619
\* 0x811c9dc5 = 0x811c * 2^16 + 0x9dc5
FNV_OFFSET == <<33052, 40389>>

RECURSIVE BitXor(_, _)
BitXor(a, b) ==
  IF a = 0 THEN b
  ELSE IF b = 0 THEN a
  ELSE (((a % 2) + (b % 2)) % 2) + 2 * BitXor(a \div 2, b \div 2)

\* Math.imul(hash, FNV_PRIME): the low 32 bits of the product.
Imul(hash, k) ==
  LET klo == k % Half
      khi == k \div Half
      low == hash[2] * klo
  IN  << ((low \div Half) + hash[1] * klo + hash[2] * khi) % Half, low % Half >>

\* The loop of FNV-1: multiply first, then XOR.
RECURSIVE HashLoopMultiplyFirst(_, _, _)
HashLoopMultiplyFirst(data, i, hash) ==
  IF i > Len(data) THEN hash
  ELSE LET product == Imul(hash, FNV_PRIME)
       IN  HashLoopMultiplyFirst(data, i + 1, <<product[1], BitXor(product[2], data[i])>>)

\* for (i = 0; i < length; i++) { hash ^= bytes[i]; hash = Math.imul(hash, FNV_PRIME) }
RECURSIVE HashLoop(_, _, _)
HashLoop(data, i, hash) ==
  IF i > Len(data) THEN hash
  ELSE HashLoop(data, i + 1, Imul(<<hash[1], BitXor(hash[2], data[i])>>, FNV_PRIME))

HexDigits == <<"0", "1", "2", "3", "4", "5", "6", "7",
               "8", "9", "a", "b", "c", "d", "e", "f">>

\* Four lowercase hex digits of a 16-bit value, leading zeros kept.
Hex4(n) ==
  HexDigits[(n \div 4096) + 1] \o HexDigits[((n \div 256) % 16) + 1]
    \o HexDigits[((n \div 16) % 16) + 1] \o HexDigits[(n % 16) + 1]

\* (hash >>> 0).toString(16).padStart(8, '0')
ToHex8(hash) == Hex4(hash[1]) \o Hex4(hash[2])

\* The hash of a Uint8Array as the 8-digit signature.
Fnv1a(data) == ToHex8(HashLoop(data, 1, FNV_OFFSET))

\* Fnv1a of the test documents, evaluated once.
Fnv1aOfContents == [d \in Contents |-> Fnv1a(d)]

\* computeBytesSignature of bytesSignature.ts, lines 11-53.  `b` is a bytes
\* value [kind, inst, data]; kind "undefined" stands for a missing argument.
computeBytesSignature(b) ==
  IF b.kind = "undefined" \/ Len(b.data) = 0 THEN "empty"
  ELSE LET bytesArray == IF b.kind = "Uint8Array" THEN b.data ELSE ToUint8Array(b.data)
       IN  IF bytesArray \in Contents THEN Fnv1aOfContents[bytesArray]
           ELSE Fnv1a(bytesArray)

(***************************************************************************)
(* JavaScript values, as far as the utility functions look at them.        *)
(* An object carries its own property names in insertion order (keys) and  *)
(* the values of these properties (props).                                 *)
(***************************************************************************)
JsNull == [t |-> "null"]
JsUndefined == [t |-> "undefined"]
JsNumber(n) == [t |-> "number", n |-> n]
JsString(s) == [t |-> "string", s |-> s]
JsArray(items) == [t |-> "Array", items |-> items]
JsUint8Array(data) == [t |-> "Uint8Array", data |-> data]
JsObject(keys, props) == [t |-> "object", keys |-> keys, props |-> props]
\* What a call that throws a TypeError yields in place of a value.
Threw == [t |-> "TypeError"]

\* typeof value
Typeof(value) ==
  IF value.t \in {"null", "Array", "Uint8Array", "object"} THEN "object" ELSE value.t

ArrayIsArray(value) == value.t = "Array"

\* key in value: "true" or "false", and a TypeError when value is no object.
HasProperty(key, value) ==
  IF Typeof(value) # "object" \/ value = JsNull THEN "TypeError"
  ELSE IF value.t = "object" /\ key \in DOMAIN value.props THEN "true"
  ELSE "false"

\* value.key: a TypeError on null and undefined, undefined for a missing property.
Get(value, key) ==
  IF value = JsNull \/ value = JsUndefined THEN Threw
  ELSE IF value.t = "object" /\ key \in DOMAIN value.props THEN value.props[key]
  ELSE JsUndefined

\* unwrapCandidOption without the typeof test that guards the `in` operator.
unwrapCandidOptionUnguarded(value) ==
  IF value = JsNull \/ value = JsUndefined THEN JsNull
  ELSE IF ArrayIsArray(value) /\ Len(value.items) = 0 THEN JsNull
  ELSE IF HasProperty("__kind__", value) # "false"
    THEN IF HasProperty("__kind__", value) = "TypeError" THEN Threw
         ELSE IF Get(value, "__kind__") = JsString("None") THEN JsNull
         ELSE IF Get(value, "__kind__") = JsString("Some")
                 /\ HasProperty("value", value) = "true"
           THEN Get(value, "value")
         ELSE value
  ELSE value

\* unwrapCandidOption, applicationStatusNormalization.ts lines 30-46.
unwrapCandidOption(value) ==
  IF value = JsNull \/ value = JsUndefined THEN JsNull
  ELSE IF ArrayIsArray(value) /\ Len(value.items) = 0 THEN JsNull
  ELSE IF Typeof(value) = "object" /\ value # JsNull
          /\ HasProperty("__kind__", value) # "false"
    THEN IF HasProperty("__kind__", value) = "TypeError" THEN Threw
         ELSE IF Get(value, "__kind__") = JsString("None") THEN JsNull
         ELSE IF Get(value, "__kind__") = JsString("Some")
                 /\ HasProperty("value", value) = "true"
           THEN Get(value, "value")
         ELSE value
  ELSE value

\* unwrapOptional, applicationStatusNormalization.ts lines 123-156.
unwrapOptional(value) ==
  IF value = JsNull \/ value = JsUndefined THEN JsNull
  ELSE IF ArrayIsArray(value)
    THEN IF Len(value.items) = 0 THEN JsNull
         ELSE IF Len(value.items) = 1 THEN value.items[1]
         ELSE JsNull
  ELSE IF Typeof(value) = "object" /\ value # JsNull
    THEN IF Get(value, "__kind__") = JsString("None") THEN JsNull
         ELSE IF Get(value, "__kind__") = JsString("Some") THEN Get(value, "value")
         ELSE value
  ELSE value

\* !value, for the values above.
Falsy(value) ==
  \/ value = JsNull
  \/ value = JsUndefined
  \/ value.t = "number" /\ value.n = 0
  \/ value.t = "string" /\ value.s = ""

\* The property names that are array indices, in ascending order.
IndexKeys == <<"0", "1", "2", "3">>
\* The property names for which Number(key) is NaN; Number("") is 0, and
\* "-1" and "1.5" are numbers that are no array index.
NaNKeys == {"a", "id", "__kind__", "value"}
IsIndexKey(key) == \E i \in 1..Len(IndexKeys) : IndexKeys[i] = key

\* Object.keys(value): the array indices in ascending order, then the other
\* names in insertion order.
ObjectKeys(value) ==
  SelectSeq(IndexKeys, LAMBDA key : key \in DOMAIN value.props)
    \o SelectSeq(value.keys, LAMBDA key : ~IsIndexKey(key))

\* The conversion of one element by new Uint8Array(array): a number is taken
\* modulo 256, undefined and null give 0.
ToUint8(element) == IF element.t = "number" THEN element.n % 256 ELSE 0

\* new Uint8Array(array)
NewUint8Array(items) == JsUint8Array([i \in 1..Len(items) |-> ToUint8(items[i])])

\* normalizeBytes, applicationStatusNormalization.ts lines 48-100 (the helper
\* that logs as [candidOption]).
normalizeBytesCandid(bytes) ==
  IF Falsy(bytes) THEN JsNull
  ELSE IF bytes.t = "Uint8Array" THEN bytes
  ELSE IF ArrayIsArray(bytes) THEN NewUint8Array(bytes.items)
  ELSE IF Typeof(bytes) = "object" /\ bytes # JsNull
    THEN LET keys == ObjectKeys(bytes)
             isArrayLike == \A i \in 1..Len(keys) : keys[i] \notin NaNKeys
         IN  IF isArrayLike /\ Len(keys) > 0
               THEN NewUint8Array([i \in 1..Len(keys) |-> Get(bytes, keys[i])])
             ELSE JsNull
  ELSE JsNull

\* normalizeBytes, applicationStatusNormalization.ts lines 161-175.
normalizeBytes(bytes) ==
  IF Falsy(bytes) THEN JsNull
  ELSE IF bytes.t = "Uint8Array"
    THEN IF Len(bytes.data) > 0 THEN bytes ELSE JsNull
  ELSE IF ArrayIsArray(bytes)
    THEN IF Len(bytes.items) > 0 THEN NewUint8Array(bytes.items) ELSE JsNull
  ELSE JsNull

(***************************************************************************)
(* validatePDFBytes of utils/pdfAttachment.ts, and what isPdfValid of      *)
(* part_004 reports about a rejection.                                     *)
(***************************************************************************)
\* A valid PDF should be at least 100 bytes long.
MinPdfLength == 100
\* The value of a property that an object does not have.
NoError == "undefined"

\* bytesArray[i], i counted from 0.
At(data, i) == data[i + 1]

\* The loop with the bound i < length - 5: the last offset is not looked at.
EofMarkerFoundShort(data) ==
  \E i \in Max(0, Len(data) - TrailerWindow) .. (Len(data) - 6) :
    /\ At(data, i) = 37
    /\ At(data, i + 1) = 37
    /\ At(data, i + 2) = 69
    /\ At(data, i + 3) = 79
    /\ At(data, i + 4) = 70

\* The loop of lines 68-80: the marker is looked for at every offset i with
\* searchStart <= i < length - 4.
EofMarkerFound(data) ==
  \E i \in Max(0, Len(data) - TrailerWindow) .. (Len(data) - 5) :
    /\ At(data, i) = 37
    /\ At(data, i + 1) = 37
    /\ At(data, i + 2) = 69
    /\ At(data, i + 3) = 79
    /\ At(data, i + 4) = 70

validatePDFBytes(bytes) ==
  IF Falsy(bytes) \/ (bytes.t = "Uint8Array" /\ Len(bytes.data) = 0)
       \/ (bytes.t = "Array" /\ Len(bytes.items) = 0)
    THEN [isValid |-> FALSE, error |-> "No PDF data available"]
  ELSE LET bytesArray == IF bytes.t = "Uint8Array" THEN bytes.data
                         ELSE NewUint8Array(bytes.items).data
           hasPDFHeader == /\ At(bytesArray, 0) = 37
                           /\ At(bytesArray, 1) = 80
                           /\ At(bytesArray, 2) = 68
                           /\ At(bytesArray, 3) = 70
                           /\ At(bytesArray, 4) = 45
       IN  IF Len(bytesArray) < MinPdfLength
             THEN [isValid |-> FALSE, error |-> "PDF file is too small to be valid"]
           ELSE IF ~hasPDFHeader
             THEN [isValid |-> FALSE,
                   error |-> "Invalid PDF file: missing PDF header. The file may be corrupted or not a valid PDF."]
           ELSE IF ~EofMarkerFound(bytesArray)
             THEN [isValid |-> FALSE,
                   error |-> "Invalid PDF file: missing EOF marker. The file may be incomplete or corrupted."]
           ELSE [isValid |-> TRUE, error |-> NoError]

\* isPdfValid rejecting a wrong header without a warning.
isPdfValidWarningSilent(data) ==
  IF Len(data) = 0 THEN "Validation failed: Empty or null bytes"
  ELSE IF ~HasPdfHeader(data) THEN NoError
  ELSE IF ~HasEofMarker(data) THEN "Validation failed: Missing %%EOF marker"
  ELSE NoError

\* isPdfValid returns a boolean only; the reason of a rejection is the
\* warning it logs before it returns false (lines 12, 21 and 35).
isPdfValidWarning(data) ==
  IF Len(data) = 0 THEN "Validation failed: Empty or null bytes"
  ELSE IF ~HasPdfHeader(data) THEN "Validation failed: Invalid PDF header"
  ELSE IF ~HasEofMarker(data) THEN "Validation failed: Missing %%EOF marker"
  ELSE NoError

(***************************************************************************)
(* The slot: one mounted consumer of useBlobObjectUrl.                     *)
(***************************************************************************)
VARIABLES
  hook,            \* which iteration of the hook the slot runs
  bytes,           \* the bytes argument of the latest render
  contentType,     \* the contentType / mimeType argument of the latest render
  url,             \* useState: url / objectUrl (latest queued value)
  error,           \* useState: error
  signature,       \* useState: signature
  rendered,        \* what the latest render read from the state and returned
  timeoutRef,      \* useRef: the pending cleanup timer
  previousUrlRef,  \* useRef: the URL created by the latest effect
  cleanup,         \* the destroy function the latest effect run returned
  pc,              \* where React is in the slot's life
  created,         \* number of URL.createObjectURL calls so far
  revokes,         \* per URL, the number of URL.revokeObjectURL calls
  timers,          \* the URLs whose delayed revocation is scheduled
  madeFor,         \* per URL, the signature of the bytes it was created from
  outcome,         \* what the latest effect body made of its input
  op,              \* the utility function called last, "input" before the call
  arg,             \* the value the utility function is called with
  ret              \* what the call returned

vars == << hook, bytes, contentType, url, error, signature, rendered, timeoutRef,
           previousUrlRef, cleanup, pc, created, revokes, timers, madeFor, outcome,
           op, arg, ret >>

\* The variables of the slot and the variables of a utility call.
slot == << hook, bytes, contentType, url, error, signature, rendered, timeoutRef,
           previousUrlRef, cleanup, pc, created, revokes, timers, madeFor, outcome >>
call == << op, arg, ret >>

Hooks == {"signature", "delayed"}
Urls == 1..MaxUrls
\* null, for a URL or a timer handle
NoUrl == 0
Null == "null"

Absent == [kind |-> "undefined", inst |-> 0, data |-> <<>>]
\* The bytes a parent passes: nothing, any test document as a Uint8Array (each in
\* several instances with the same content), or a document as a number[].
BytesInputs ==
  {Absent}
    \cup [kind : {"Uint8Array"}, inst : 1..MaxInstances, data : Contents]
    \cup [kind : {"Array"}, inst : {1}, data : {PdfA}]
ContentTypes == {"undefined", "application/pdf", "text/plain"}
\* err.message of a failing Blob / createObjectURL call
HostErrors == {"Failed to create Blob URL", "Out of memory"}

NoCleanup == [set |-> FALSE, url |-> NoUrl]
IsEmpty(b) == b.kind = "undefined" \/ Len(b.data) = 0
\* The default value of the mimeType parameter.
MimeType(ct) == IF ct = "undefined" THEN "application/pdf" ELSE ct
Live(u) == u \in 1..created /\ revokes[u] = 0
State == [url |-> url, error |-> error, signature |-> signature]

\* The dependency array of the effect, compared with Object.is by React.
Deps(b, ct) == IF hook = "signature" THEN <<b, MimeType(ct)>> ELSE <<b, ct>>

(***************************************************************************)
(* The effect body of hooks/useBlobObjectUrl.ts.  objectUrl and signature  *)
(* are the values of the render that created the effect.  The result       *)
(* names the state it queues, the URL it revokes, whether it creates one,  *)
(* the destroy function it returns and whether it ran the validator.       *)
(***************************************************************************)
SignatureBody(ok) ==
  LET objectUrl == rendered.url
      newSignature == computeBytesSignature(bytes)
      keep == [url |-> url, error |-> error, signature |-> signature,
               revoke |-> NoUrl, create |-> FALSE, cleanup |-> NoCleanup,
               validated |-> FALSE, timeoutRef |-> timeoutRef,
               previousUrlRef |-> previousUrlRef, outcome |-> outcome]
  IN  IF IsEmpty(bytes)
        THEN [keep EXCEPT !.url = NoUrl, !.outcome = "none"]
      ELSE IF bytes.kind # "Uint8Array"
        THEN [keep EXCEPT !.url = NoUrl, !.outcome = "bad-type"]
      ELSE IF newSignature = rendered.signature
        THEN keep
      ELSE IF MimeType(contentType) = "application/pdf" /\ ~isPdfValid(bytes.data)
        THEN [keep EXCEPT !.url = NoUrl, !.signature = newSignature,
                          !.validated = TRUE, !.outcome = "invalid"]
      ELSE [keep EXCEPT !.url = IF ok THEN created + 1 ELSE NoUrl,
                        !.signature = newSignature,
                        !.revoke = objectUrl,
                        !.create = ok,
                        !.cleanup = [set |-> TRUE, url |-> objectUrl],
                        !.validated = (MimeType(contentType) = "application/pdf"),
                        !.outcome = IF ok THEN "created" ELSE "failed"]

(***************************************************************************)
(* The effect body of part_010, lines 28-178.                              *)
(***************************************************************************)
DelayedBody(ok, msg) ==
  LET bytesArray == IF bytes.kind = "Uint8Array" THEN bytes.data
                    ELSE ToUint8Array(bytes.data)
      newSignature ==
        computeBytesSignature([kind |-> "Uint8Array", inst |-> 0, data |-> bytesArray])
      reset == [url |-> NoUrl, error |-> Null, signature |-> signature,
                revoke |-> previousUrlRef, create |-> FALSE, cleanup |-> NoCleanup,
                validated |-> FALSE, timeoutRef |-> NoUrl,
                previousUrlRef |-> NoUrl, outcome |-> outcome]
  IN  IF IsEmpty(bytes)
        THEN [reset EXCEPT !.signature = "empty", !.outcome = "none"]
      ELSE IF contentType = "undefined"
        THEN [reset EXCEPT !.error = "Content type is required",
                           !.signature = "no-content-type",
                           !.outcome = "no-content-type"]
      ELSE IF contentType = "application/pdf" /\ ~HasPdfHeader(bytesArray)
        THEN [reset EXCEPT !.error = "Invalid PDF: Missing PDF header",
                           !.signature = newSignature,
                           !.validated = TRUE, !.outcome = "invalid"]
      ELSE IF contentType = "application/pdf" /\ ~HasEofMarker(bytesArray)
        THEN [reset EXCEPT
                !.error = "Invalid PDF: Missing EOF marker (file may be truncated or corrupted)",
                !.signature = newSignature,
                !.validated = TRUE, !.outcome = "invalid"]
      ELSE IF ok
        THEN [reset EXCEPT !.url = created + 1,
                           !.signature = newSignature,
                           !.create = TRUE,
                           !.previousUrlRef = created + 1,
                           !.cleanup = [set |-> TRUE, url |-> created + 1],
                           !.validated = (contentType = "application/pdf"),
                           !.outcome = "created"]
      ELSE [reset EXCEPT !.error = msg,
                         !.signature = "error",
                         !.validated = (contentType = "application/pdf"),
                         !.outcome = "failed"]

(***************************************************************************)
(* The effect body of the third iteration, part_010 lines 212-240: no      *)
(* signature and no validation; the destroy function revokes the URL that  *)
(* this run created.                                                       *)
(***************************************************************************)
SimpleBody(ok, msg) ==
  LET reset == [url |-> NoUrl, error |-> Null, signature |-> signature,
                revoke |-> NoUrl, create |-> FALSE, cleanup |-> NoCleanup,
                validated |-> FALSE, timeoutRef |-> timeoutRef,
                previousUrlRef |-> previousUrlRef, outcome |-> "none"]
  IN  IF IsEmpty(bytes) \/ contentType = "undefined"
        THEN reset
      ELSE IF ok
        THEN [reset EXCEPT !.url = created + 1,
                           !.create = TRUE,
                           !.cleanup = [set |-> TRUE, url |-> created + 1],
                           !.outcome = "created"]
      ELSE [reset EXCEPT !.error = msg,
                         !.cleanup = [set |-> TRUE, url |-> NoUrl],
                         !.outcome = "failed"]

Body(ok, msg) ==
  IF hook = "signature" THEN SignatureBody(ok)
  ELSE IF hook = "delayed" THEN DelayedBody(ok, msg)
  ELSE SimpleBody(ok, msg)

\* URL.revokeObjectURL(u); nothing happens for null.
Revoked(counts, u) == IF u = NoUrl THEN counts ELSE [counts EXCEPT ![u] = @ + 1]

(***************************************************************************)
(* Init: the component has rendered once with its first arguments and the  *)
(* mount effect is pending.                                                *)
(***************************************************************************)
Init ==
  /\ hook \in Hooks
  /\ bytes \in BytesInputs
  /\ contentType \in ContentTypes
  /\ url = NoUrl
  /\ error = Null
  /\ signature = IF hook = "signature" THEN Null ELSE ""
  /\ rendered = State
  /\ timeoutRef = NoUrl
  /\ previousUrlRef = NoUrl
  /\ cleanup = NoCleanup
  /\ pc = "effect"
  /\ created = 0
  /\ revokes = [u \in Urls |-> 0]
  /\ timers = {}
  /\ madeFor = [u \in Urls |-> ""]
  /\ outcome = "mounting"
  /\ op = "slot"
  /\ arg = JsUndefined
  /\ ret = JsUndefined

\* The component function runs: with new arguments from its parent, or again
\* with the same ones after the effect queued a state update.
Render(b, ct) ==
  /\ pc \in {"idle", "rerender"}
  /\ Deps(b, ct) = Deps(bytes, contentType) => pc = "rerender"
  /\ Deps(b, ct) # Deps(bytes, contentType) => created < MaxUrls
  /\ bytes' = b
  /\ contentType' = ct
  /\ rendered' = State
  /\ pc' = IF Deps(b, ct) # Deps(bytes, contentType) THEN "effect" ELSE "idle"
  /\ UNCHANGED << hook, url, error, signature, timeoutRef, previousUrlRef, cleanup,
                  created, revokes, timers, madeFor, outcome >>
  /\ UNCHANGED call

\* The destroy function of the latest effect run, if it returned one:
\* hooks/useBlobObjectUrl.ts revokes the objectUrl of its closure, part_010
\* schedules the revocation of the URL it created, and the third iteration
\* revokes the URL it created.
Destroy ==
  /\ revokes' = IF hook \in {"signature", "simple"} /\ cleanup.set
                  THEN Revoked(revokes, cleanup.url) ELSE revokes
  /\ timers' = IF hook = "delayed" /\ cleanup.set
                 THEN timers \cup {cleanup.url} ELSE timers
  /\ timeoutRef' = IF hook = "delayed" /\ cleanup.set THEN cleanup.url ELSE timeoutRef
  /\ cleanup' = NoCleanup

\* React runs the previous destroy function before the effect body.
Cleanup ==
  /\ pc = "effect"
  /\ Destroy
  /\ pc' = "body"
  /\ UNCHANGED << hook, bytes, contentType, url, error, signature, rendered,
                  previousUrlRef, created, madeFor, outcome >>
  /\ UNCHANGED call

\* The effect body runs; its state updates are batched until the next render.
Effect ==
  /\ pc = "body"
  /\ \E ok \in BOOLEAN, msg \in HostErrors :
       LET r == Body(ok, msg) IN
       /\ url' = r.url
       /\ error' = r.error
       /\ signature' = r.signature
       /\ outcome' = r.outcome
       /\ cleanup' = r.cleanup
       /\ timers' = IF hook = "delayed" THEN timers \ {timeoutRef} ELSE timers
       /\ timeoutRef' = r.timeoutRef
       /\ previousUrlRef' = r.previousUrlRef
       /\ revokes' = Revoked(revokes, r.revoke)
       /\ created' = IF r.create THEN created + 1 ELSE created
       /\ madeFor' = IF r.create THEN [madeFor EXCEPT ![created + 1] = r.signature]
                     ELSE madeFor
       /\ pc' = IF [url |-> r.url, error |-> r.error, signature |-> r.signature] = rendered
                  THEN "idle" ELSE "rerender"
  /\ UNCHANGED << hook, bytes, contentType, rendered >>
  /\ UNCHANGED call

\* The consumer is destroyed: React runs the destroy function of the effect.
Unmount ==
  /\ pc \in {"idle", "rerender"}
  /\ Destroy
  /\ pc' = IF hook = "delayed" THEN "unmounting" ELSE "unmounted"
  /\ UNCHANGED << hook, bytes, contentType, url, error, signature, rendered,
                  previousUrlRef, created, madeFor, outcome >>
  /\ UNCHANGED call

\* part_010, lines 181-193: the destroy function of the unmount effect clears
\* the timer and revokes the URL of previousUrlRef; neither ref is reset.
UnmountRefs ==
  /\ pc = "unmounting"
  /\ timers' = timers \ {timeoutRef}
  /\ revokes' = Revoked(revokes, previousUrlRef)
  /\ pc' = "unmounted"
  /\ UNCHANGED << hook, bytes, contentType, url, error, signature, rendered,
                  timeoutRef, previousUrlRef, cleanup, created, madeFor, outcome >>
  /\ UNCHANGED call

\* part_010, lines 162-165: the timer callback revokes the URL after 2 s.  A
\* timer runs only between React's callbacks.
DelayedRevoke(u) ==
  /\ pc \in {"idle", "rerender", "unmounted"}
  /\ u \in timers
  /\ timers' = timers \ {u}
  /\ revokes' = Revoked(revokes, u)
  /\ UNCHANGED << hook, bytes, contentType, url, error, signature, rendered,
                  timeoutRef, previousUrlRef, cleanup, pc, created, madeFor, outcome >>
  /\ UNCHANGED call

\* DelayedRevoke is no disjunct of Next: React runs the destroy function that
\* schedules the timer and, in the same synchronous flush, the callback that
\* clears it (the effect body, line 39-43, or the unmount destroy function, line
\* 184-187), so that no timer is pending when the event loop could run one.
\* TimerNeverRuns states this of every reachable state.
Next ==
  \/ \E b \in BytesInputs, ct \in ContentTypes : Render(b, ct)
  \/ Cleanup
  \/ Effect
  \/ Unmount
  \/ UnmountRefs

Spec == Init /\ [][Next]_vars

\* The slot runs any of the three iterations of the hook.
Iterations == Hooks \cup {"simple"}
InitIterations ==
  /\ hook \in Iterations
  /\ bytes \in BytesInputs
  /\ contentType \in ContentTypes
  /\ url = NoUrl
  /\ error = Null
  /\ signature = IF hook = "delayed" THEN "" ELSE Null
  /\ rendered = State
  /\ timeoutRef = NoUrl
  /\ previousUrlRef = NoUrl
  /\ cleanup = NoCleanup
  /\ pc = "effect"
  /\ created = 0
  /\ revokes = [u \in Urls |-> 0]
  /\ timers = {}
  /\ madeFor = [u \in Urls |-> ""]
  /\ outcome = "mounting"
  /\ op = "slot"
  /\ arg = JsUndefined
  /\ ret = JsUndefined
IterationsSpec == InitIterations /\ [][Next]_vars

TypeOK ==
  /\ hook \in Iterations
  /\ bytes \in BytesInputs
  /\ contentType \in ContentTypes
  /\ url \in 0..created
  /\ rendered.url \in 0..created
  /\ timeoutRef \in 0..created
  /\ previousUrlRef \in 0..created
  /\ created \in 0..MaxUrls
  /\ timers \subseteq 1..created
  /\ pc \in {"effect", "body", "rerender", "idle", "unmounting", "unmounted"}

\* The timer callback of part_010 can never run.
TimerNeverRuns == \A u \in Urls : ~ENABLED DelayedRevoke(u)

(***************************************************************************)
(* The utility functions are pure: each is called once on an input drawn   *)
(* by Init.  No slot is mounted while they are exercised.                  *)
(***************************************************************************)
NoSlot ==
  /\ hook = "signature"
  /\ bytes = Absent
  /\ contentType = "undefined"
  /\ url = NoUrl
  /\ error = Null
  /\ signature = Null
  /\ rendered = State
  /\ timeoutRef = NoUrl
  /\ previousUrlRef = NoUrl
  /\ cleanup = NoCleanup
  /\ pc = "unmounted"
  /\ created = 0
  /\ revokes = [u \in Urls |-> 0]
  /\ timers = {}
  /\ madeFor = [u \in Urls |-> ""]
  /\ outcome = "mounting"

\* The utility function `name` is called on the input and returns result.
Returns(name, result) ==
  /\ op' = name
  /\ ret' = result
  /\ UNCHANGED arg
  /\ UNCHANGED slot

\* The values a Candid optional field holds.
Elements == {JsNumber(0), JsNumber(7), JsString("a"), JsUint8Array(PdfA),
             JsArray(<<JsNumber(37), JsNumber(80)>>)}
TaggedNone == JsObject(<<"__kind__">>, [__kind__ |-> JsString("None")])
TaggedSome(value) ==
  JsObject(<<"__kind__", "value">>, [__kind__ |-> JsString("Some"), value |-> value])
\* A record tagged Some that has no value property.
TaggedSomeOnly == JsObject(<<"__kind__">>, [__kind__ |-> JsString("Some")])
\* Values that are no optional wrapper: primitives, a buffer, and records
\* without a None / Some discriminator.
BareValues ==
  {JsNumber(0), JsNumber(7), JsString(""), JsString("a"), JsUint8Array(PdfA),
   JsObject(<<"id">>, [id |-> JsNumber(7)]),
   JsObject(<<"__kind__">>, [__kind__ |-> JsString("Other")])}
DecodeInputs ==
  {JsNull, JsUndefined, JsArray(<<>>), TaggedNone, TaggedSomeOnly}
    \cup {JsArray(<<x>>) : x \in Elements}
    \cup {JsArray(<<x, y>>) : x \in Elements, y \in Elements}
    \cup {TaggedSome(x) : x \in Elements}
    \cup BareValues

DecodeInit ==
  /\ NoSlot
  /\ op = "input"
  /\ arg \in DecodeInputs
  /\ ret = JsUndefined

CallUnwrapOptional ==
  /\ op = "input"
  /\ Returns("unwrapOptional", unwrapOptional(arg))
CallUnwrapCandidOption ==
  /\ op = "input"
  /\ Returns("unwrapCandidOption", unwrapCandidOption(arg))

DecodeNext == CallUnwrapOptional \/ CallUnwrapCandidOption
DecodeSpec == DecodeInit /\ [][DecodeNext]_vars

\* The longest list of bytes that is handed to normalizeBytes.
MaxBytes == 3
ByteValues == {0, 37, 255}
\* Integers that do not fit a byte.
BadValues == {-1, 256, 300}
ByteLists == UNION {[1..n -> ByteValues] : n \in 1..MaxBytes}
\* Lists of integers with one element that does not fit a byte.
BadLists ==
  UNION {{[list EXCEPT ![i] = bad] : i \in 1..Len(list), bad \in BadValues} :
           list \in UNION {[1..n -> ByteValues] : n \in 1..2}}

AsArray(list) == JsArray([i \in 1..Len(list) |-> JsNumber(list[i])])
\* The position of an array index among IndexKeys.
KeyPosition(key) == CHOOSE i \in 1..Len(IndexKeys) : IndexKeys[i] = key
\* The object { 0: list[0], 1: list[1], ... }.
AsObject(list) ==
  JsObject([i \in 1..Len(list) |-> IndexKeys[i]],
           [key \in {IndexKeys[i] : i \in 1..Len(list)} |->
              JsNumber(list[KeyPosition(key)])])
\* The same object, its properties assigned from the last index to the first.
AsObjectReversed(list) ==
  [AsObject(list) EXCEPT !.keys = [i \in 1..Len(list) |-> IndexKeys[Len(list) + 1 - i]]]
\* The object without its property 0: the indices that remain have a gap.
WithoutFirst(list) ==
  JsObject([i \in 1..(Len(list) - 1) |-> IndexKeys[i + 1]],
           [key \in {IndexKeys[i] : i \in 2..Len(list)} |->
              JsNumber(list[KeyPosition(key)])])
OtherObjects ==
  {JsObject(<<>>, <<>>),
   JsObject(<<"a">>, [a |-> JsNumber(37)]),
   JsObject(<<"0", "a">>, ("0" :> JsNumber(37)) @@ ("a" :> JsNumber(80))),
   JsObject(<<"0", "2">>, ("0" :> JsNumber(37)) @@ ("2" :> JsNumber(80))),
   JsObject(<<"-1">>, ("-1" :> JsNumber(37))),
   JsObject(<<"1.5">>, ("1.5" :> JsNumber(37))),
   JsObject(<<"">>, ("" :> JsNumber(37))),
   TaggedNone}

NormalizeInputs ==
  {JsNull, JsUndefined, JsNumber(7), JsString("abc"),
   JsUint8Array(<<>>), JsArray(<<>>)}
    \cup {JsUint8Array(list) : list \in ByteLists}
    \cup {AsArray(list) : list \in ByteLists \cup BadLists}
    \cup {AsObject(list) : list \in ByteLists \cup BadLists}
    \cup {AsObjectReversed(list) : list \in ByteLists}
    \cup {WithoutFirst(list) : list \in {l \in ByteLists : Len(l) > 1}}
    \cup OtherObjects

NormalizeInit ==
  /\ NoSlot
  /\ op = "input"
  /\ arg \in NormalizeInputs
  /\ ret = JsUndefined

CallNormalizeBytes ==
  /\ op = "input"
  /\ Returns("normalizeBytes", normalizeBytes(arg))
CallNormalizeBytesCandid ==
  /\ op = "input"
  /\ Returns("normalizeBytesCandid", normalizeBytesCandid(arg))

NormalizeNext == CallNormalizeBytes \/ CallNormalizeBytesCandid
NormalizeSpec == NormalizeInit /\ [][NormalizeNext]_vars

\* The length of the long test documents: the trailer window of such a
\* document starts behind its header.
LongLength == 1040
Lengths == {0, 3, 10, MinPdfLength - 1, MinPdfLength, TrailerWindow + 5, LongLength}

\* A document of len bytes: "%PDF-" with byte badAt of it zeroed (badAt = 0
\* leaves it intact), blanks, and "%%EOF" from offset markerAt on (none if
\* markerAt is -1), cut off at the end of the document.
Document(len, badAt, markerAt) ==
  [i \in 1..len |->
     IF i <= 5 THEN (IF i = badAt THEN 0 ELSE PdfHeader[i])
     ELSE IF markerAt >= 0 /\ i - 1 >= markerAt /\ i - 1 <= markerAt + 4
       THEN EofMarker[i - markerAt]
     ELSE 32]

\* Where the marker is put: nowhere, right behind the header, in the middle,
\* around the start of the trailer window and around the end of the document.
MarkerOffsets(len) ==
  {-1} \cup {o \in {5, len \div 2, len - TrailerWindow - 5, len - TrailerWindow - 1,
                     len - TrailerWindow, len - 6, len - 5, len - 4} :
               o >= 5 /\ o < len}

Documents ==
  UNION {{Document(len, badAt, markerAt) : badAt \in 0..5, markerAt \in MarkerOffsets(len)} :
           len \in Lengths}

ValidateInputs ==
  {JsUndefined, AsArray(PdfA), AsArray(Document(MinPdfLength, 0, MinPdfLength - 5))}
    \cup {JsUint8Array(d) : d \in Documents}

ValidateInit ==
  /\ NoSlot
  /\ op = "input"
  /\ arg \in ValidateInputs
  /\ ret = JsUndefined

CallValidatePDFBytes ==
  /\ op = "input"
  /\ Returns("validatePDFBytes", validatePDFBytes(arg))

\* isPdfValid takes a Uint8Array; next to the boolean it returns, the warning
\* it logged is kept.
CallIsPdfValid ==
  /\ op = "input"
  /\ arg.t = "Uint8Array"
  /\ Returns("isPdfValid", [isValid |-> isPdfValid(arg.data),
                            warning |-> isPdfValidWarning(arg.data)])

\* The check the effect of part_010 makes in place on the non-empty bytes of
\* an application/pdf attachment (lines 94-136); the error it sets is kept.
CallInlineCheck ==
  /\ op = "input"
  /\ arg.t = "Uint8Array"
  /\ Len(arg.data) > 0
  /\ Returns("inlineCheck",
             [isValid |-> HasPdfHeader(arg.data) /\ HasEofMarker(arg.data),
              error |-> IF ~HasPdfHeader(arg.data) THEN "Invalid PDF: Missing PDF header"
                        ELSE IF ~HasEofMarker(arg.data)
                          THEN "Invalid PDF: Missing EOF marker (file may be truncated or corrupted)"
                        ELSE NoError])

ValidateNext == CallValidatePDFBytes \/ CallIsPdfValid \/ CallInlineCheck
ValidateSpec == ValidateInit /\ [][ValidateNext]_vars

(***************************************************************************)
(* computeBytesSignature called with any value.  The file bytesSignature.ts *)
(* holds two iterations of it: lines 11-53 hash a Uint8Array or a number[], *)
(* lines 60-102 hash a Uint8Array only.                                    *)
(***************************************************************************)
\* value.length === 0
HasLengthZero(value) ==
  \/ value.t = "Uint8Array" /\ Len(value.data) = 0
  \/ value.t = "Array" /\ Len(value.items) = 0
  \/ value.t = "string" /\ value.s = ""

\* new Uint8Array(value) for a value that is no Uint8Array: an array is copied
\* element by element, a number is a length (a RangeError when negative), a
\* non-numeric string or a plain object gives an empty buffer.
Uint8ArrayFrom(value) ==
  IF value.t = "Array" THEN NewUint8Array(value.items)
  ELSE IF value.t = "number"
    THEN IF value.n < 0 THEN Threw ELSE JsUint8Array([i \in 1..value.n |-> 0])
  ELSE JsUint8Array(<<>>)

\* bytesSignature.ts lines 11-53.
computeBytesSignatureAny(value) ==
  IF Falsy(value) \/ HasLengthZero(value) THEN "empty"
  ELSE LET bytesArray == IF value.t = "Uint8Array" THEN value ELSE Uint8ArrayFrom(value)
       IN  IF bytesArray = Threw THEN "error" ELSE Fnv1a(bytesArray.data)

\* bytesSignature.ts lines 60-102.
computeBytesSignatureStrict(value) ==
  IF Falsy(value) THEN "null"
  ELSE IF HasLengthZero(value) THEN "empty"
  ELSE IF value.t # "Uint8Array" THEN "invalid-type"
  ELSE Fnv1a(value.data)

\* "a" and "foobar", whose FNV-1a hashes are published test vectors.
TextA == <<97>>
TextFoobar == <<102, 111, 111, 98, 97, 114>>
SignedLists == ByteLists \cup {PdfA, PdfB, NoEof, TextA, TextFoobar}

SignatureInputs ==
  {JsNull, JsUndefined, JsUint8Array(<<>>), JsArray(<<>>), JsString("abc"),
   JsObject(<<"id">>, [id |-> JsNumber(7)]), JsNumber(0), JsNumber(2), JsNumber(-1)}
    \cup {JsUint8Array(list) : list \in SignedLists}
    \cup {AsArray(list) : list \in SignedLists \cup BadLists}

SignatureInit ==
  /\ NoSlot
  /\ op = "input"
  /\ arg \in SignatureInputs
  /\ ret = JsUndefined

CallComputeBytesSignatureAny ==
  /\ op = "input"
  /\ Returns("computeBytesSignatureAny", JsString(computeBytesSignatureAny(arg)))
CallComputeBytesSignatureStrict ==
  /\ op = "input"
  /\ Returns("computeBytesSignatureStrict", JsString(computeBytesSignatureStrict(arg)))

SignatureNext == CallComputeBytesSignatureAny \/ CallComputeBytesSignatureStrict
SignatureSpec == SignatureInit /\ [][SignatureNext]_vars

(***************************************************************************)
(* The assembly of an ApplicationStatus from the raw backend response.     *)
(* Three iterations exist: normalizeApplicationStatusResult of part_002,   *)
(* which unwraps the Candid optionals, and two getApplicationStatusResult  *)
(* of utils/getApplicationStatusResult.ts (lines 7-81 and lines 92-177),   *)
(* which take the record as the bindings typed it.                         *)
(***************************************************************************)
\* The characters String.prototype.trim removes, of those the inputs hold.
WhiteSpace == {" ", "\t"}
\* The capital letters of the inputs, and toLowerCase of each.
CapitalLetters == <<"P", "D", "F", "V">>
SmallLetters == <<"p", "d", "f", "v">>

RECURSIVE TrimStart(_)
TrimStart(s) ==
  IF Len(s) > 0 /\ SubSeq(s, 1, 1) \in WhiteSpace THEN TrimStart(SubSeq(s, 2, Len(s)))
  ELSE s
RECURSIVE TrimEnd(_)
TrimEnd(s) ==
  IF Len(s) > 0 /\ SubSeq(s, Len(s), Len(s)) \in WhiteSpace
    THEN TrimEnd(SubSeq(s, 1, Len(s) - 1))
  ELSE s
\* s.trim()
Trim(s) == TrimEnd(TrimStart(s))

LowerCaseLetter(c) ==
  IF \E i \in 1..Len(CapitalLetters) : CapitalLetters[i] = c
    THEN SmallLetters[CHOOSE i \in 1..Len(CapitalLetters) : CapitalLetters[i] = c]
  ELSE c
\* s.toLowerCase()
RECURSIVE ToLowerCase(_)
ToLowerCase(s) ==
  IF Len(s) = 0 THEN s
  ELSE LowerCaseLetter(SubSeq(s, 1, 1)) \o ToLowerCase(SubSeq(s, 2, Len(s)))
\* s.endsWith(suffix)
EndsWith(s, suffix) ==
  Len(s) >= Len(suffix) /\ SubSeq(s, Len(s) - Len(suffix) + 1, Len(s)) = suffix

\* normalizeString, applicationStatusNormalization.ts lines 180-185.
normalizeString(value) ==
  IF value.t = "string" /\ Len(Trim(value.s)) > 0 THEN JsString(Trim(value.s))
  ELSE JsNull

\* a || b
Or(a, b) == IF Falsy(a) THEN b ELSE a
\* value?.key
OptionalGet(value, key) ==
  IF value = JsNull \/ value = JsUndefined THEN JsUndefined ELSE Get(value, key)

DefaultFilename == "attachment.pdf"
DefaultContentType == "application/pdf"
PdfExtension == ".pdf"

\* The filename with .pdf appended unless it ends with it already; a
\* TypeError when the filename is no string (toLowerCase is not a function).
WithPdfExtension(filename) ==
  IF filename.t # "string" THEN Threw
  ELSE IF ~EndsWith(ToLowerCase(filename.s), PdfExtension)
    THEN JsString(filename.s \o PdfExtension)
  ELSE filename

StatusKeys == <<"applicationId", "applicantEmail", "applicantName", "visaType",
                "status", "lastUpdated", "comments", "attachment">>

\* normalizeApplicationStatusResult, part_002 lines 9-66.
normalizeApplicationStatusResult(rawResponse) ==
  LET unwrapped == unwrapOptional(rawResponse)
  IN  IF Falsy(unwrapped) THEN JsNull
      ELSE IF \/ Typeof(unwrapped) # "object"
              \/ HasProperty("applicationId", unwrapped) # "true"
              \/ HasProperty("applicantEmail", unwrapped) # "true"
        THEN JsNull
      ELSE
        LET rawAttachment ==
              IF Falsy(Get(unwrapped, "attachment")) THEN JsNull
              ELSE unwrapOptional(Get(unwrapped, "attachment"))
            filename ==
              WithPdfExtension(
                Or(normalizeString(unwrapOptional(Get(rawAttachment, "filename"))),
                   JsString(DefaultFilename)))
            mimeType ==
              Or(normalizeString(unwrapOptional(Get(rawAttachment, "contentType"))),
                 JsString(DefaultContentType))
            data == normalizeBytes(unwrapOptional(Get(rawAttachment, "bytes")))
            normalizedAttachment ==
              IF Falsy(rawAttachment) THEN JsUndefined
              ELSE IF data # JsNull /\ Len(data.data) > 0
                THEN JsObject(<<"filename", "contentType", "bytes">>,
                              [filename |-> filename, contentType |-> mimeType,
                               bytes |-> data])
              ELSE JsUndefined
        IN  JsObject(StatusKeys,
              [applicationId |-> Get(unwrapped, "applicationId"),
               applicantEmail |-> Get(unwrapped, "applicantEmail"),
               applicantName |-> Or(Get(unwrapped, "applicantName"), JsString("")),
               visaType |-> Or(Get(unwrapped, "visaType"), JsString("")),
               status |-> Or(Get(unwrapped, "status"), JsString("")),
               lastUpdated |-> Get(unwrapped, "lastUpdated"),
               comments |-> Or(unwrapOptional(Get(unwrapped, "comments")), JsUndefined),
               attachment |-> normalizedAttachment])

\* { ...attachment, bytes }
WithBytes(attachment, data) ==
  JsObject(IF "bytes" \in DOMAIN attachment.props THEN attachment.keys
           ELSE Append(attachment.keys, "bytes"),
           [key \in DOMAIN attachment.props \cup {"bytes"} |->
              IF key = "bytes" THEN data ELSE attachment.props[key]])

\* getApplicationStatusResult, getApplicationStatusResult.ts lines 7-81 (the
\* helper with the diagnostic logging).
getApplicationStatusResultLogged(rawResult) ==
  IF Falsy(rawResult) THEN JsNull
  ELSE
    LET attachment == Get(rawResult, "attachment")
        rawBytes == OptionalGet(attachment, "bytes")
        convertedBytes == Uint8ArrayFrom(rawBytes)
        normalizedAttachment ==
          IF ~Falsy(rawBytes) /\ rawBytes.t # "Uint8Array"
            THEN IF convertedBytes = Threw THEN Threw
                 ELSE WithBytes(attachment, convertedBytes)
          ELSE attachment
    IN  IF normalizedAttachment = Threw THEN Threw
        ELSE JsObject(StatusKeys,
               [applicationId |-> Get(rawResult, "applicationId"),
                applicantEmail |-> Get(rawResult, "applicantEmail"),
                applicantName |-> Get(rawResult, "applicantName"),
                visaType |-> Get(rawResult, "visaType"),
                status |-> Get(rawResult, "status"),
                lastUpdated |-> Get(rawResult, "lastUpdated"),
                comments |-> Or(Get(rawResult, "comments"), JsUndefined),
                attachment |-> normalizedAttachment])

\* getApplicationStatusResult, getApplicationStatusResult.ts lines 92-177.
getApplicationStatusResult(rawResult) ==
  IF Falsy(rawResult) THEN JsNull
  ELSE
    LET attachment == Get(rawResult, "attachment")
        data == Get(attachment, "bytes")
        normalizedBytes == IF data.t = "Uint8Array" THEN data ELSE Uint8ArrayFrom(data)
        mimeType == Or(Get(attachment, "contentType"), JsString(DefaultContentType))
        filename ==
          WithPdfExtension(Or(Get(attachment, "filename"), JsString(DefaultFilename)))
        normalizedAttachment ==
          IF Falsy(attachment) THEN attachment
          ELSE IF normalizedBytes = Threw \/ filename = Threw THEN Threw
          ELSE JsObject(<<"bytes", "contentType", "filename">>,
                        [bytes |-> normalizedBytes, contentType |-> mimeType,
                         filename |-> filename])
    IN  IF normalizedAttachment = Threw THEN Threw
        ELSE JsObject(StatusKeys,
               [applicationId |-> Get(rawResult, "applicationId"),
                applicantEmail |-> Get(rawResult, "applicantEmail"),
                applicantName |-> Get(rawResult, "applicantName"),
                visaType |-> Get(rawResult, "visaType"),
                status |-> Get(rawResult, "status"),
                lastUpdated |-> Get(rawResult, "lastUpdated"),
                comments |-> Get(rawResult, "comments"),
                attachment |-> normalizedAttachment])

\* The strings a filename and a content type arrive as.
Filenames == {"", " ", "visa", "a.PDF", "a.pdf", " v.pdf\t"}
MimeTypes == {"", " \t", "application/pdf", "image/png"}
\* A field of the wire record: absent, an empty optional, the bare string or
\* the string wrapped as a one-element optional.
WireStrings(strings) ==
  {JsUndefined, JsArray(<<>>)}
    \cup {JsString(s) : s \in strings} \cup {JsArray(<<JsString(s)>>) : s \in strings}
\* The bytes field: absent, empty, a buffer, a plain sequence of integers, a
\* buffer or a sequence wrapped as an optional, and values that are no bytes.
WireBytes ==
  {JsUndefined, JsArray(<<>>), JsUint8Array(<<>>), JsArray(<<JsUint8Array(<<>>)>>),
   JsUint8Array(PdfA), AsArray(PdfA), AsArray(<<37>>),
   JsArray(<<JsUint8Array(PdfA)>>), JsArray(<<AsArray(PdfA)>>), JsString("x")}

WireAttachment(filename, type, data) ==
  JsObject(<<"filename", "contentType", "bytes">>,
           [filename |-> filename, contentType |-> type, bytes |-> data])
\* Every filename and content type with a well-formed document, and every
\* form of the bytes with an absent or a supplied filename and content type.
WireAttachments ==
  {WireAttachment(filename, type, JsUint8Array(PdfA)) :
     filename \in WireStrings(Filenames), type \in WireStrings(MimeTypes)}
    \cup {WireAttachment(filename, type, data) :
            filename \in {JsArray(<<>>), JsString("visa")},
            type \in {JsArray(<<>>), JsString("application/pdf")},
            data \in WireBytes}

\* The forms an optional holding value arrives in.
Wrapped(value) == {value, JsArray(<<value>>), TaggedSome(value)}

WireStatus(attachment) ==
  JsObject(StatusKeys,
    [applicationId |-> JsString("APP-1"), applicantEmail |-> JsString("a@b.c"),
     applicantName |-> JsString("Ann"), visaType |-> JsString(""),
     status |-> JsString("Approved"), lastUpdated |-> JsNumber(7),
     comments |-> JsArray(<<>>), attachment |-> attachment])
\* A record that is no ApplicationStatus.
NoStatus == JsObject(<<"applicationId">>, [applicationId |-> JsString("APP-1")])

AssembleInputs ==
  {JsNull, JsUndefined, JsArray(<<>>), TaggedNone, NoStatus}
    \cup UNION {Wrapped(WireStatus(attachment)) :
                  attachment \in {JsUndefined, JsNull, JsArray(<<>>), TaggedNone}}
    \cup UNION {Wrapped(WireStatus(attachment)) :
                  attachment \in UNION {Wrapped(a) : a \in WireAttachments}}

AssembleInit ==
  /\ NoSlot
  /\ op = "input"
  /\ arg \in AssembleInputs
  /\ ret = JsUndefined

CallNormalizeApplicationStatusResult ==
  /\ op = "input"
  /\ Returns("normalizeApplicationStatusResult", normalizeApplicationStatusResult(arg))
CallGetApplicationStatusResultLogged ==
  /\ op = "input"
  /\ Returns("getApplicationStatusResultLogged", getApplicationStatusResultLogged(arg))
CallGetApplicationStatusResult ==
  /\ op = "input"
  /\ Returns("getApplicationStatusResult", getApplicationStatusResult(arg))

AssembleNext ==
  \/ CallNormalizeApplicationStatusResult
  \/ CallGetApplicationStatusResultLogged
  \/ CallGetApplicationStatusResult
AssembleSpec == AssembleInit /\ [][AssembleNext]_vars

(***************************************************************************)
(* The claims.                                                             *)
(***************************************************************************)
\* The bytes are a non-empty canonical buffer.
Supplied == bytes.kind = "Uint8Array" /\ ~IsEmpty(bytes)
\* The structural validator is applied to the bytes and rejects them.
Rejected ==
  /\ Supplied
  /\ (IF hook = "signature" THEN MimeType(contentType) ELSE contentType) = "application/pdf"
  /\ ~isPdfValid(bytes.data)
\* The signatures that are computed from the content of a document.
ContentSignatures == {Fnv1aOfContents[d] : d \in Contents \ {<<>>}}
\* The value the hook returns to its consumer from the state r.
Returned(r) == IF hook = "signature" THEN [url |-> r.url] ELSE r
\* The three failure outcomes a consumer has to tell apart.
Failures == {"none", "invalid", "failed"}

\* C1 (as claimed): when the effect processes bytes whose signature equals the
\* slot's current signature, no URL is created and the slot keeps the URL and the
\* error it held.
ReuseStep ==
  (pc = "body" /\ Supplied /\ computeBytesSignature(bytes) = signature)
    => (created' = created /\ url' = url /\ error' = error)
C1_CacheReuseLaw == [][ReuseStep]_vars
\* It holds of hooks/useBlobObjectUrl.ts; part_010 never compares signatures.
SignatureHookReuses == [][hook = "signature" => ReuseStep]_vars

\* C2 (as claimed): when the effect processes bytes whose signature differs from
\* the current one while the slot holds a live URL, that URL is not revoked in
\* this step.
C2_DeferredRevocation ==
  [][(pc = "body" /\ Live(url) /\ Supplied /\ computeBytesSignature(bytes) # signature)
       => revokes'[url] = revokes[url]]_vars

\* C3 (as claimed): once the consumer is destroyed, every URL the slot created
\* is revoked or has its revocation scheduled.
C3_TeardownReleases ==
  pc = "unmounted" => \A u \in 1..created : revokes[u] > 0 \/ u \in timers
\* It holds of part_010, whose unmount destroy function revokes previousUrlRef.
DelayedHookReleases == hook = "delayed" => C3_TeardownReleases

\* C4 (as claimed): the URL the mounted consumer last rendered with is never a
\* revoked one.
C4_NoUseAfterRevoke ==
  (pc \in {"effect", "body", "rerender", "idle"} /\ rendered.url # NoUrl)
    => revokes[rendered.url] = 0

\* C5 (as claimed): when a request with acceptable bytes arrives for the signature
\* of a URL whose revocation is pending, the timer is cancelled, that URL is returned and no
\* second URL is created.
C5_CancelAndReuse ==
  [][\A u \in Urls :
       (pc = "body" /\ u \in timers /\ Live(u) /\ Supplied /\ contentType # "undefined"
          /\ ~Rejected /\ computeBytesSignature(bytes) = madeFor[u])
       => (u \notin timers' /\ revokes'[u] = 0 /\ url' = u /\ created' = created)]_vars

\* C6 (as claimed): a request with acceptable bytes of another signature than
\* that of a URL whose revocation is pending leaves that URL and its timer alone, and any URL it
\* returns is a newly created one.
C6_OtherSignatureKeepsTimer ==
  [][\A u \in Urls :
       (pc = "body" /\ u \in timers /\ Live(u) /\ Supplied /\ contentType # "undefined"
          /\ ~Rejected /\ computeBytesSignature(bytes) # madeFor[u])
       => (u \in timers' /\ revokes'[u] = revokes[u]
           /\ (url' # NoUrl => (created' = created + 1 /\ url' = created')))]_vars

\* C7 (as claimed): when the validator rejects the bytes, no URL is created, the
\* slot has no URL, carries an error and records the signature of the bytes, and
\* bytes with the recorded signature are not validated again.
C7_RejectedBytes ==
  [][(pc = "body" /\ Rejected)
       => (created' = created /\ url' = NoUrl /\ error' # Null
           /\ signature' = computeBytesSignature(bytes)
           /\ (computeBytesSignature(bytes) = signature
                 => \A ok \in BOOLEAN, msg \in HostErrors : ~Body(ok, msg).validated))]_vars

\* C8 (as claimed): when the host fails to create the URL, the slot ends with
\* no URL, an error string, and the signature of the bytes.
C8_CreationFailure ==
  [][(pc = "body" /\ Supplied /\ outcome' = "failed")
       => (url' = NoUrl /\ error' # Null
           /\ signature' = computeBytesSignature(bytes))]_vars

\* C9 (as claimed): when the slot goes from one of the outcomes no document,
\* invalid document, failed creation to another one, the value it returns
\* changes.
OutcomeStep ==
  (pc = "body" /\ outcome \in Failures /\ outcome' \in Failures /\ outcome' # outcome)
    => Returned([url |-> url', error |-> error', signature |-> signature'])
         # Returned(rendered)
C9_OutcomesDistinguished == [][OutcomeStep]_vars
\* It holds of part_010, which returns { url, error, signature }.
DelayedHookDistinguishes == [][hook = "delayed" => OutcomeStep]_vars

\* C10 (as claimed): once absent or zero-length bytes are processed, the slot
\* exposes no URL and holds no signature computed from content.
C10_EmptySlot ==
  (pc = "idle" /\ IsEmpty(bytes))
    => (rendered.url = NoUrl /\ signature \notin ContentSignatures)
\* It holds of part_010, which sets the signature to 'empty'.
DelayedHookEmpties == hook = "delayed" => C10_EmptySlot

(***************************************************************************)
(* The decoders of Candid optionals.                                       *)
(***************************************************************************)
Decoders == {"unwrapOptional", "unwrapCandidOption"}
IsSequence(value) == value.t = "Array"
IsTagged(value) ==
  /\ value.t = "object"
  /\ "__kind__" \in DOMAIN value.props
  /\ value.props["__kind__"] \in {JsString("None"), JsString("Some")}
IsWrapper(value) ==
  value = JsNull \/ value = JsUndefined \/ IsSequence(value) \/ IsTagged(value)

\* What C11 asks of a decoder on absent values and ordered sequences.
SequenceDecoded ==
  /\ arg \in {JsNull, JsUndefined} => ret = JsNull
  /\ IsSequence(arg) =>
       ret = IF Len(arg.items) = 1 THEN arg.items[1] ELSE JsNull

\* C11 (as claimed): null, undefined, the empty sequence and a sequence of more
\* than one element decode to None, a sequence of one element decodes to that
\* element, whichever decoder is called.
C11_SequencesDecoded == op \in Decoders => SequenceDecoded
\* It holds of unwrapOptional; unwrapCandidOption only knows the empty sequence.
UnwrapOptionalDecodesSequences == op = "unwrapOptional" => SequenceDecoded

\* What C12 asks of a decoder on tagged records.
TaggedDecoded ==
  IsTagged(arg) =>
    ret = IF arg.props["__kind__"] = JsString("Some") /\ "value" \in DOMAIN arg.props
            THEN arg.props["value"]
          ELSE JsNull

\* C12 (as claimed): a record tagged None decodes to None, a record tagged Some
\* decodes to its inner value, and to None when it has no inner value.
C12_TaggedDecoded == op \in Decoders => TaggedDecoded
\* Both decoders decode the records that carry what their tag announces.
WellFormedTaggedDecoded ==
  (op \in Decoders /\ arg # TaggedSomeOnly) => TaggedDecoded

\* C13: a decoder returns for every input (it raises no TypeError), and a
\* value that is no optional wrapper is returned unchanged.
C13_TotalAndPassThrough ==
  op \in Decoders => (ret # Threw /\ (~IsWrapper(arg) => ret = arg))
\* A bare record was decoded by the older decoder and came back as it was.
C13_BareValuePassed ==
  /\ op = "unwrapCandidOption"
  /\ arg = JsObject(<<"id">>, [id |-> JsNumber(7)])
  /\ ret = arg

(***************************************************************************)
(* The canonicalization of bytes.                                          *)
(***************************************************************************)
Normalizers == {"normalizeBytes", "normalizeBytesCandid"}
\* The integers an array or an index-keyed object holds, in index order.
IsBytes(list) == \A i \in 1..Len(list) : list[i] \in 0..255
ItemNumbers(value) == [i \in 1..Len(value.items) |-> value.items[i].n]
PropNumbers(value) == [i \in 1..Len(value.keys) |-> value.props[IndexKeys[i]].n]
\* The keys of the object, sorted, are exactly 0..n-1 for an n >= 1.
IsDense(value) ==
  /\ value.t = "object"
  /\ Len(value.keys) \in 1..Len(IndexKeys)
  /\ DOMAIN value.props = {IndexKeys[i] : i \in 1..Len(value.keys)}

\* What C14 asks of a canonicalization of a buffer or a sequence.
NeverEmpty ==
  /\ ret # JsNull => (ret.t = "Uint8Array" /\ Len(ret.data) > 0)
  /\ arg \in {JsUint8Array(<<>>), JsArray(<<>>)} => ret = JsNull
  /\ (arg.t = "Uint8Array" /\ Len(arg.data) > 0) => ret = arg
  /\ (arg.t = "Array" /\ Len(arg.items) > 0 /\ IsBytes(ItemNumbers(arg)))
       => ret = JsUint8Array(ItemNumbers(arg))

\* C14 (as claimed): no canonicalization returns an empty buffer: the empty
\* buffer and the empty sequence give None, a non-empty buffer or sequence of
\* bytes gives the buffer of the same bytes.
C14_NeverEmptyBuffer == op \in Normalizers => NeverEmpty
\* It holds of the normalizeBytes of lines 161-175.
NormalizeBytesNeverEmpty == op = "normalizeBytes" => NeverEmpty

\* C15 (as claimed): an object whose keys are exactly 0..n-1 canonicalizes to
\* the buffer of its values in index order, every other object to None.
C15_ObjectsCanonicalized ==
  (op \in Normalizers /\ arg.t = "object")
    => IF IsDense(arg)
         THEN IsBytes(PropNumbers(arg)) => ret = JsUint8Array(PropNumbers(arg))
       ELSE ret = JsNull
\* The helper of lines 48-100 does materialize the dense objects.
CandidMaterializesDense ==
  (op = "normalizeBytesCandid" /\ IsDense(arg) /\ IsBytes(PropNumbers(arg)))
    => ret = JsUint8Array(PropNumbers(arg))

\* C16 (as claimed): a sequence or an index-keyed object that holds an integer
\* outside 0..255 canonicalizes to None.
C16_OutOfRangeRejected ==
  /\ (op \in Normalizers /\ arg.t = "Array" /\ ~IsBytes(ItemNumbers(arg)))
       => ret = JsNull
  /\ (op \in Normalizers /\ IsDense(arg) /\ ~IsBytes(PropNumbers(arg)))
       => ret = JsNull

\* The list of bytes is handed over in one of its three representations.
Represents(value, list) ==
  value \in {AsArray(list), AsObject(list), AsObjectReversed(list), JsUint8Array(list)}
Independent ==
  \A list \in ByteLists : Represents(arg, list) => ret = JsUint8Array(list)

\* C17 (as claimed): a non-empty list of bytes canonicalizes to the same
\* buffer, whether it comes as a sequence, as a dense index-keyed object or as
\* a buffer.
C17_RepresentationIndependent == op \in Normalizers => Independent
\* It holds of the helper of lines 48-100, which is the one that reads objects.
CandidIndependent == op = "normalizeBytesCandid" => Independent

(***************************************************************************)
(* The structural validation of a PDF.                                     *)
(***************************************************************************)
Validators == {"validatePDFBytes", "isPdfValid"}
\* The four reasons of a rejection, by the message that reports them.
ReasonOf ==
  ("No PDF data available" :> "empty")
    @@ ("Validation failed: Empty or null bytes" :> "empty")
    @@ ("PDF file is too small to be valid" :> "too-small")
    @@ ("Invalid PDF file: missing PDF header. The file may be corrupted or not a valid PDF."
          :> "missing-header")
    @@ ("Validation failed: Invalid PDF header" :> "missing-header")
    @@ ("Invalid PDF file: missing EOF marker. The file may be incomplete or corrupted."
          :> "missing-trailer")
    @@ ("Validation failed: Missing %%EOF marker" :> "missing-trailer")
    @@ (NoError :> "none")
Reasons == {"empty", "too-small", "missing-header", "missing-trailer"}
\* The verdict of the call: validatePDFBytes returns its reason, isPdfValid
\* logs it.
Valid == ret.isValid
Reason == ReasonOf[IF op = "isPdfValid" THEN ret.warning ELSE ret.error]
\* The bytes the validator was called with.
Input ==
  IF arg.t = "Uint8Array" THEN arg.data
  ELSE IF arg.t = "Array" THEN ItemNumbers(arg)
  ELSE <<>>
HeaderMatches(data) == Len(data) >= 5 /\ SubSeq(data, 1, 5) = PdfHeader
\* "%%EOF" occurs at an offset i with max(0, L - 1024) <= i <= L - 5.
TrailerInWindow(data) ==
  \E i \in 0..(Len(data) - 5) :
    /\ i >= Len(data) - TrailerWindow
    /\ SubSeq(data, i + 1, i + 5) = EofMarker

\* What C18 asks of the first three checks.
ChecksOrdered ==
  /\ Len(Input) = 0 => (~Valid /\ Reason = "empty")
  /\ Len(Input) \in 1..(MinPdfLength - 1) => (~Valid /\ Reason = "too-small")
  /\ (Len(Input) >= MinPdfLength /\ ~HeaderMatches(Input))
       => (~Valid /\ Reason = "missing-header")

\* C18 (as claimed): a validator reports "empty" for no bytes, else "too-small"
\* for fewer than 100 bytes whatever they are, else "missing-header" when the
\* first five bytes are not %PDF-.
C18_ChecksInOrder == op \in Validators => ChecksOrdered
\* It holds of validatePDFBytes; isPdfValid has no check of the length.
ValidatePDFBytesChecksInOrder == op = "validatePDFBytes" => ChecksOrdered

\* C19: a document of at least 100 bytes with the right header is valid
\* exactly when %%EOF occurs at an offset of the last 1024 bytes, the last
\* offset L - 5 included; otherwise the reason is the missing trailer.
C19_TrailerWindow ==
  (op \in Validators /\ Len(Input) >= MinPdfLength /\ HeaderMatches(Input))
    => /\ Valid <=> TrailerInWindow(Input)
       /\ ~Valid => Reason = "missing-trailer"
\* A long document whose only marker is its last five bytes was accepted.
C19_MarkerAtLastOffset ==
  /\ op = "validatePDFBytes"
  /\ arg = JsUint8Array(Document(LongLength, 0, LongLength - 5))
  /\ ret.isValid

Signers == {"computeBytesSignatureAny", "computeBytesSignatureStrict"}
\* 0x811c9dc5 and 0x01000193, least significant digit first.
OffsetDigits == <<5, 12, 13, 9, 12, 1, 1, 8>>
PrimeDigits == <<3, 9, 1, 0, 0, 0, 1, 0>>
\* Exclusive or of two hexadecimal digits, bit by bit.
DigitXor(a, b) ==
  ((a + b) % 2) + 2 * (((a \div 2) + (b \div 2)) % 2)
    + 4 * (((a \div 4) + (b \div 4)) % 2) + 8 * (((a \div 8) + (b \div 8)) % 2)
\* The byte is XORed into the two lowest digits.
XorByte(digits, byte) ==
  [digits EXCEPT ![1] = DigitXor(@, byte % 16), ![2] = DigitXor(@, byte \div 16)]
\* Long multiplication by the prime: the sum of column k and the carry into it.
RECURSIVE Column(_, _, _)
Column(digits, k, i) ==
  IF i > k THEN 0 ELSE digits[i] * PrimeDigits[k + 1 - i] + Column(digits, k, i + 1)
RECURSIVE Carried(_, _)
Carried(digits, k) ==
  IF k = 0 THEN 0 ELSE Column(digits, k, 1) + (Carried(digits, k - 1) \div 16)
\* The product modulo 2^32: the eight lowest digits.
TimesPrime(digits) == [k \in 1..8 |-> Carried(digits, k) % 16]
RECURSIVE Fold(_, _, _)
Fold(data, i, digits) ==
  IF i > Len(data) THEN digits
  ELSE Fold(data, i + 1, TimesPrime(XorByte(digits, data[i])))
\* Eight lowercase digits, most significant first.
Rendered(digits) ==
  HexDigits[digits[8] + 1] \o HexDigits[digits[7] + 1] \o HexDigits[digits[6] + 1]
    \o HexDigits[digits[5] + 1] \o HexDigits[digits[4] + 1] \o HexDigits[digits[3] + 1]
    \o HexDigits[digits[2] + 1] \o HexDigits[digits[1] + 1]
ReferenceSignature(data) == Rendered(Fold(data, 1, OffsetDigits))

\* C21: the signature of a non-empty buffer is the 32-bit FNV-1a hash of its
\* bytes, rendered as 8 lowercase hexadecimal digits.
C21_SignatureIsFnv1a ==
  (op \in Signers /\ arg.t = "Uint8Array" /\ Len(arg.data) > 0)
    => ret = JsString(ReferenceSignature(arg.data))
\* The bytes of "foobar" were signed with the published FNV-1a value.
C21_FoobarSigned ==
  /\ op = "computeBytesSignatureStrict"
  /\ arg = JsUint8Array(TextFoobar)
  /\ ret = JsString("bf9cf968")

ReservedSentinels == {"empty", "error", "invalid-type"}
\* C22 (as claimed): a zero-length buffer is signed "empty", null and undefined
\* "error", a value that is neither a buffer nor a sequence "invalid-type", and
\* whatever is returned is one of these sentinels or 8 digits.
C22_ReservedSentinels ==
  op \in Signers =>
    /\ arg = JsUint8Array(<<>>) => ret.s = "empty"
    /\ arg \in {JsNull, JsUndefined} => ret.s = "error"
    /\ arg.t \in {"string", "object", "number"} => ret.s = "invalid-type"
    /\ ret.s \in ReservedSentinels \/ Len(ret.s) = 8
\* Both iterations do sign the zero-length buffer "empty".
EmptyBufferSigned == (op \in Signers /\ arg = JsUint8Array(<<>>)) => ret.s = "empty"

\* The signature the called function gives to the canonical buffer of a list.
SignatureOfBuffer(list) ==
  IF op = "computeBytesSignatureAny" THEN computeBytesSignatureAny(JsUint8Array(list))
  ELSE computeBytesSignatureStrict(JsUint8Array(list))
Deterministic ==
  \A list \in SignedLists :
    arg \in {JsUint8Array(list), AsArray(list)} => ret.s = SignatureOfBuffer(list)

\* C23 (as claimed): an input receives the signature of the canonical buffer with
\* the same bytes, whether it is supplied as a buffer or as a sequence of
\* integers.
C23_Deterministic == op \in Signers => Deterministic
\* It holds of lines 11-53, which convert a number[] before hashing.
AnyDeterministic == op = "computeBytesSignatureAny" => Deterministic

\* The three iterations of the assembly.
Assemblers == {"normalizeApplicationStatusResult", "getApplicationStatusResultLogged",
               "getApplicationStatusResult"}
\* The attachment of the returned record, undefined when there is none.
AttachmentOf(result) ==
  IF result.t = "object" /\ "attachment" \in DOMAIN result.props
       /\ result.props.attachment # JsNull
    THEN result.props.attachment
  ELSE JsUndefined
NonEmptyBytes(attachment) ==
  /\ Get(attachment, "bytes").t = "Uint8Array"
  /\ Len(Get(attachment, "bytes").data) > 0
AttachmentsHaveBytes ==
  AttachmentOf(ret) # JsUndefined => NonEmptyBytes(AttachmentOf(ret))

\* C24 (as claimed): every attachment of an assembled record has non-empty
\* bytes; bytes that are absent, empty or no bytes at all leave the record
\* without attachment.
C24_NonEmptyBytes == op \in Assemblers => AttachmentsHaveBytes
\* It holds of normalizeApplicationStatusResult, which tests the length.
NormalizedAttachmentsHaveBytes ==
  op = "normalizeApplicationStatusResult" => AttachmentsHaveBytes

\* The attachment of the raw record, with the optionals around the record and
\* around the attachment removed.
RawAttachment ==
  LET status == unwrapOptional(arg)
  IN  IF status.t = "object" /\ "attachment" \in DOMAIN status.props
        THEN unwrapOptional(status.props.attachment)
      ELSE JsNull
\* The string the raw attachment holds in a field, "" when it holds none.
WireString(key) ==
  LET value == IF RawAttachment.t = "object" THEN unwrapOptional(Get(RawAttachment, key))
               ELSE JsNull
  IN  IF value.t = "string" THEN value.s ELSE ""
Blank(s) == Len(Trim(s)) = 0
Suffixed(s) ==
  IF EndsWith(ToLowerCase(s), PdfExtension) THEN s ELSE s \o PdfExtension
Defaulted ==
  LET attachment == AttachmentOf(ret)
      filename == Get(attachment, "filename")
      type == Get(attachment, "contentType")
  IN  attachment # JsUndefined =>
        /\ type.t = "string" /\ ~Blank(type.s)
        /\ filename.t = "string" /\ filename.s # ""
        /\ EndsWith(ToLowerCase(filename.s), PdfExtension)
        /\ Blank(WireString("contentType")) => type.s = DefaultContentType
        /\ Blank(WireString("filename")) => filename.s = DefaultFilename
        /\ ~Blank(WireString("filename")) =>
             filename.s \in {Suffixed(WireString("filename")),
                             Suffixed(Trim(WireString("filename")))}

\* C25 (as claimed): the content type of an assembled attachment is not blank
\* and is application/pdf when the wire value is absent or blank; the filename
\* ends in .pdf, is attachment.pdf when the wire value is absent or blank, and
\* is otherwise the wire value with .pdf appended unless it ends with it.
C25_Defaults ==
  op \in {"normalizeApplicationStatusResult", "getApplicationStatusResult"} => Defaulted
\* It holds of normalizeApplicationStatusResult, which trims before it tests.
NormalizedDefaults == op = "normalizeApplicationStatusResult" => Defaulted

\* The record of the worked example: the attachment a one-element optional,
\* filename and content type empty optionals, the bytes as given.
ExampleRecord(data) ==
  WireStatus(JsArray(<<WireAttachment(JsArray(<<>>), JsArray(<<>>), data)>>))
AssembledPayload(list) ==
  /\ Get(AttachmentOf(ret), "filename") = JsString(DefaultFilename)
  /\ Get(AttachmentOf(ret), "contentType") = JsString(DefaultContentType)
  /\ Get(AttachmentOf(ret), "bytes") = JsUint8Array(list)

\* C26 (as claimed): the example record with the bytes a plain sequence of more
\* than one integer assembles to attachment.pdf, application/pdf and a buffer
\* of all the bytes in order.
C26_PlainSequenceAssembled ==
  (op = "normalizeApplicationStatusResult" /\ arg = ExampleRecord(AsArray(PdfA)))
    => AssembledPayload(PdfA)
\* The same record assembles when the bytes arrive as a buffer.
BufferAssembled ==
  (op = "normalizeApplicationStatusResult" /\ arg = ExampleRecord(JsUint8Array(PdfA)))
    => AssembledPayload(PdfA)

(***************************************************************************)
(* The slot over sequences of inputs.                                      *)
(***************************************************************************)
\* The latest input is one a fresh slot makes a URL for, if the host does.
Accepted ==
  /\ Supplied
  /\ ~Rejected
  /\ hook = "delayed" => contentType # "undefined"
\* The consumer holds a live URL that was made for the content of its bytes.
ShowsResource ==
  /\ Live(rendered.url)
  /\ madeFor[rendered.url] = computeBytesSignature(bytes)
LatestWins ==
  pc = "idle" =>
    /\ Accepted => (ShowsResource \/ (outcome = "failed" /\ rendered.url = NoUrl))
    /\ (IsEmpty(bytes) \/ Rejected) => rendered.url = NoUrl

\* C27 (as claimed): once the latest input is processed and rendered, the slot
\* shows what a fresh slot shows for it: a live URL for accepted bytes (or the
\* failure of the host), no URL for absent or rejected ones, whatever came
\* before; bytes A, no bytes, A again end with a live URL for A.
C27_LatestInputWins == hook \in Hooks => LatestWins
\* It holds of part_010 lines 18-196, which starts every run from scratch.
DelayedLatestWins == hook = "delayed" => LatestWins

\* Created / active 1, pending revocation 2, revoked 3; 0 before creation.
Stage(count, pending, made, u) ==
  IF count[u] > 0 THEN 3 ELSE IF u \in pending THEN 2 ELSE IF u \in 1..made THEN 1 ELSE 0
RevokedOnce == \A u \in Urls : revokes[u] <= 1
Forward ==
  \A u \in Urls : Stage(revokes', timers', created', u) >= Stage(revokes, timers, created, u)

\* C28 (as claimed): URL.revokeObjectURL is called at most once for a URL, and
\* no URL goes back from revoked to pending or from pending to active.
C28_MonotoneLifecycle ==
  /\ [](hook \in Hooks => RevokedOnce)
  /\ [][(hook \in Hooks) => Forward]_vars
\* part_010 lines 18-196 revokes every URL once.
DelayedRevokesOnce == hook = "delayed" => RevokedOnce
\* hooks/useBlobObjectUrl.ts never takes a URL back a stage.
SignatureHookForward == [][hook = "signature" => Forward]_vars

Mounted == pc \in {"effect", "body", "rerender", "idle"}
\* Every URL made so far is the one of the state or of the latest render, is
\* scheduled for revocation, or is revoked.
NoOrphans ==
  \A u \in 1..created : u \in {url, rendered.url} \/ u \in timers \/ revokes[u] > 0

\* C29 (as claimed): while the consumer is mounted, every URL the slot created
\* is exposed, pending revocation or revoked.
C29_NoOrphans == (hook \in {"signature", "simple"} /\ Mounted) => NoOrphans
\* It holds of part_010 lines 205-242, whose destroy function revokes the URL
\* of its own run.
SimpleHookNoOrphans == (hook = "simple" /\ Mounted) => NoOrphans

\* The string-based checks: isPdfValid and the check in the effect.
StringChecks == {"isPdfValid", "inlineCheck"}
Agrees == ret.isValid = validatePDFBytes(arg).isValid

\* C30 (as claimed): on every buffer, isPdfValid and the check in the effect
\* accept exactly when validatePDFBytes does, buffers of fewer than 100 bytes
\* with both markers included.
C30_ValidatorsAgree == op \in StringChecks => Agrees
\* They agree on every buffer of at least 100 bytes.
AgreeFromMinLength == (op \in StringChecks /\ Len(arg.data) >= MinPdfLength) => Agrees

====
